---- MODULE Spec2Model ----
(***************************************************************************)
(* serde-file-value: a serde Deserializer/Visitor proxy pair that replaces *)
(* every string of the form ${file:P} by the contents of file P and tells  *)
(* a listener about every such read.                                       *)
(*                                                                         *)
(* Strings are sequences of Unicode code points, file contents sequences   *)
(* of bytes.  The wrapped decoder and the wrapped callbacks (the external  *)
(* collaborators) are the environment: which value comes next in the       *)
(* document, through which visit_* operation it is delivered and whether   *)
(* the wrapped callback accepts it are chosen nondeterministically.        *)
(***************************************************************************)
EXTENDS Integers, Sequences, FiniteSets, TLC

\* Number of values (scalars and containers) one decoded document may hold.
MaxNodes == 3

----------------------------------------------------------------------------
(* Text and the reference pattern                                          *)

\* "${file:"
FilePrefix == <<36, 123, 102, 105, 108, 101, 58>>
\* '}'
CloseBrace == 125

None == [some |-> FALSE, v |-> <<>>]
Some(x) == [some |-> TRUE, v |-> x]

strip_prefix(s, p) ==
    IF Len(s) >= Len(p) /\ SubSeq(s, 1, Len(p)) = p
    THEN Some(SubSeq(s, Len(p) + 1, Len(s)))
    ELSE None

strip_suffix(s, c) ==
    IF Len(s) >= 1 /\ s[Len(s)] = c
    THEN Some(SubSeq(s, 1, Len(s) - 1))
    ELSE None

\* match_reference, were an empty middle segment refused.
match_reference_nonempty(s) ==
    LET p == strip_prefix(s, FilePrefix)
        q == IF p.some THEN strip_suffix(p.v, CloseBrace) ELSE None
    IN  IF q.some /\ q.v # <<>> THEN q ELSE None

\* s.strip_prefix("${file:").and_then(|s| s.strip_suffix('}'))
match_reference(s) ==
    LET p == strip_prefix(s, FilePrefix)
    IN  IF p.some THEN strip_suffix(p.v, CloseBrace) ELSE None

\* A continuation byte 10xxxxxx.
IsCont(b) == b >= 128 /\ b <= 191

\* String::from_utf8: the code points of a well-formed UTF-8 byte sequence,
\* or a failure (overlong forms, surrogates, values above U+10FFFF, stray or
\* missing continuation bytes).
RECURSIVE utf8_from(_, _)
utf8_from(b, i) ==
    IF i > Len(b) THEN [ok |-> TRUE, text |-> <<>>]
    ELSE
      LET b0 == b[i]
          n  == IF b0 < 128 THEN 1
                ELSE IF b0 >= 194 /\ b0 <= 223 THEN 2
                ELSE IF b0 >= 224 /\ b0 <= 239 THEN 3
                ELSE IF b0 >= 240 /\ b0 <= 244 THEN 4
                ELSE 0
          fits == n >= 1 /\ i + n - 1 <= Len(b)
          wellFormed ==
              /\ fits
              /\ \A k \in 1..(n - 1) : IsCont(b[i + k])
              /\ (b0 = 224) => b[i + 1] >= 160
              /\ (b0 = 237) => b[i + 1] <= 159
              /\ (b0 = 240) => b[i + 1] >= 144
              /\ (b0 = 244) => b[i + 1] <= 143
          cp == IF n = 1 THEN b0
                ELSE IF n = 2 THEN (b0 - 192) * 64 + (b[i + 1] - 128)
                ELSE IF n = 3 THEN (b0 - 224) * 4096 + (b[i + 1] - 128) * 64
                                   + (b[i + 2] - 128)
                ELSE (b0 - 240) * 262144 + (b[i + 1] - 128) * 4096
                     + (b[i + 2] - 128) * 64 + (b[i + 3] - 128)
      IN  IF ~wellFormed THEN [ok |-> FALSE, text |-> <<>>]
          ELSE LET rest == utf8_from(b, i + n)
               IN  IF rest.ok THEN [ok |-> TRUE, text |-> <<cp>> \o rest.text]
                   ELSE rest

from_utf8(b) == utf8_from(b, 1)

----------------------------------------------------------------------------
(* The file system the decode runs against                                 *)

PathA == <<47, 97>>
PathB == <<47, 98>>
PathC == <<47, 99>>
PathM == <<47, 109>>

\* "/a" holds the text "h" U+00E9 "2" (four bytes, three characters).
BytesA == <<104, 195, 169, 50>>
TextA == <<104, 233, 50>>
\* "/b" holds bytes that are no UTF-8: a lead byte without its continuation.
BytesB == <<104, 195, 40>>
\* "/c" holds the text "${file:/a}".
BytesC == FilePrefix \o PathA \o <<CloseBrace>>

IoOk(b) == [ok |-> TRUE, bytes |-> b, err |-> "-"]
IoErr(e) == [ok |-> FALSE, bytes |-> <<>>, err |-> e]

\* fs::read(path).  The empty path and every path that names no file fail.
fs_read(path) ==
    IF path = PathA THEN IoOk(BytesA)
    ELSE IF path = PathB THEN IoOk(BytesB)
    ELSE IF path = PathC THEN IoOk(BytesC)
    ELSE IoErr("NotFound")

----------------------------------------------------------------------------
(* The operations of the two traits, by name                               *)

\* impl de::Deserializer for Deserializer: the operations it forwards.
ForwardedDeserializeOps ==
    { "deserialize_any", "deserialize_bool", "deserialize_u8",
      "deserialize_u16", "deserialize_u32", "deserialize_u64",
      "deserialize_i8", "deserialize_i16", "deserialize_i32",
      "deserialize_i64", "deserialize_f32", "deserialize_f64",
      "deserialize_char", "deserialize_str", "deserialize_string",
      "deserialize_unit", "deserialize_option", "deserialize_seq",
      "deserialize_bytes", "deserialize_byte_buf", "deserialize_map",
      "deserialize_unit_struct", "deserialize_newtype_struct",
      "deserialize_tuple_struct", "deserialize_struct",
      "deserialize_identifier", "deserialize_tuple", "deserialize_enum",
      "deserialize_ignored_any" }

\* The operations of serde's Deserializer trait a caller may invoke.
DeserializeOps ==
    ForwardedDeserializeOps \cup {"deserialize_i128", "deserialize_u128"}

\* impl de::Visitor for Visitor: the scalar notifications forward_visit! covers.
ForwardedVisitOps ==
    { "visit_bool", "visit_i8", "visit_i16", "visit_i32", "visit_i64",
      "visit_u8", "visit_u16", "visit_u32", "visit_u64", "visit_f32",
      "visit_f64", "visit_char", "visit_bytes", "visit_byte_buf" }

\* The scalar, non-string notifications of serde's Visitor trait that carry
\* a value.
ScalarVisitOps == ForwardedVisitOps \cup {"visit_i128", "visit_u128"}

\* The values a scalar notification carries in this model.
ScalarVals == { <<0>>, <<7>> }

----------------------------------------------------------------------------
(* Visitor: what one notification does                                     *)

NoErr == [is |-> FALSE, kind |-> "-", path |-> <<>>]
Err(kind, path) == [is |-> TRUE, kind |-> kind, path |-> path]

NoCall == [called |-> FALSE, op |-> "-", val |-> <<>>]
Call(op, v) == [called |-> TRUE, op |-> op, val |-> v]

\* expand_str, were the listener called only for reads that succeed.
expand_str_quiet_failure(s) ==
    LET m == match_reference(s)
    IN  IF m.some
        THEN LET path == m.v
                 value == fs_read(path)
                 contents == from_utf8(value.bytes)
             IN  [ reads |-> <<path>>,
                   notes |-> IF value.ok
                             THEN <<[path |-> path, result |-> value]>>
                             ELSE <<>>,
                   v |-> IF value.ok /\ contents.ok
                         THEN Some(contents.text) ELSE None,
                   err |-> IF ~value.ok THEN Err("reading", path)
                           ELSE IF ~contents.ok THEN Err("parsing", path)
                           ELSE NoErr ]
        ELSE [ reads |-> <<>>, notes |-> <<>>, v |-> None, err |-> NoErr ]

\* expand_str, were the listener called after String::from_utf8(contents)?
\* instead of before it.
expand_str_late_notice(s) ==
    LET m == match_reference(s)
    IN  IF m.some
        THEN LET path == m.v
                 value == fs_read(path)
                 contents == from_utf8(value.bytes)
             IN  [ reads |-> <<path>>,
                   notes |-> IF value.ok /\ ~contents.ok
                             THEN <<>>
                             ELSE <<[path |-> path, result |-> value]>>,
                   v |-> IF value.ok /\ contents.ok
                         THEN Some(contents.text) ELSE None,
                   err |-> IF ~value.ok THEN Err("reading", path)
                           ELSE IF ~contents.ok THEN Err("parsing", path)
                           ELSE NoErr ]
        ELSE [ reads |-> <<>>, notes |-> <<>>, v |-> None, err |-> NoErr ]

\* expand_str, were a failed read tried once more before giving up.
expand_str_retry(s) ==
    LET m == match_reference(s)
    IN  IF m.some
        THEN LET path == m.v
                 value == fs_read(path)
                 contents == from_utf8(value.bytes)
             IN  [ reads |-> IF value.ok THEN <<path>> ELSE <<path, path>>,
                   notes |-> <<[path |-> path, result |-> value]>>,
                   v |-> IF value.ok /\ contents.ok
                         THEN Some(contents.text) ELSE None,
                   err |-> IF ~value.ok THEN Err("reading", path)
                           ELSE IF ~contents.ok THEN Err("parsing", path)
                           ELSE NoErr ]
        ELSE [ reads |-> <<>>, notes |-> <<>>, v |-> None, err |-> NoErr ]

\* Visitor::expand_str: the reads made, the listener calls made, and the
\* Result<Option<String>, E> returned.
expand_str(s) ==
    LET m == match_reference(s)
    IN  IF m.some
        THEN LET path == m.v
                 value == fs_read(path)
                 contents == from_utf8(value.bytes)
             IN  [ reads |-> <<path>>,
                   notes |-> <<[path |-> path, result |-> value]>>,
                   v |-> IF value.ok /\ contents.ok
                         THEN Some(contents.text) ELSE None,
                   err |-> IF ~value.ok THEN Err("reading", path)
                           ELSE IF ~contents.ok THEN Err("parsing", path)
                           ELSE NoErr ]
        ELSE [ reads |-> <<>>, notes |-> <<>>, v |-> None, err |-> NoErr ]

\* The effect of a string notification: expand_str(v)?, then the call made
\* on the wrapped callback.
Expanded(e, name, v) ==
    [ reads |-> e.reads, notes |-> e.notes, err |-> e.err,
      call |-> IF e.err.is THEN NoCall
               ELSE IF e.v.some THEN Call("visit_string", e.v.v)
               ELSE Call(name, v) ]

visit_str(v) == Expanded(expand_str(v), "visit_str", v)

\* visit_string, were the file's text expanded in its turn.
visit_string_again(v) ==
    LET e == expand_str(v)
        f == expand_str(e.v.v)
    IN  IF e.err.is \/ ~e.v.some THEN Expanded(e, "visit_string", v)
        ELSE [ reads |-> e.reads \o f.reads, notes |-> e.notes \o f.notes,
               err |-> f.err,
               call |-> IF f.err.is THEN NoCall
                        ELSE IF f.v.some THEN Call("visit_string", f.v.v)
                        ELSE Call("visit_string", e.v.v) ]

visit_string(v) == Expanded(expand_str(v), "visit_string", v)

\* visit_borrowed_str, were an unmatched string handed on as a transient one.
visit_borrowed_str_copied(v) == Expanded(expand_str(v), "visit_str", v)

visit_borrowed_str(v) == Expanded(expand_str(v), "visit_borrowed_str", v)

\* forward_visit!: self.visitor.$name(v)
forward_visit(name, v) ==
    [ reads |-> <<>>, notes |-> <<>>, err |-> NoErr, call |-> Call(name, v) ]

\* A notification the proxy does not define: serde's provided method answers
\* Err(invalid_type) without touching the wrapped callback.
provided_visit(name, v) ==
    [ reads |-> <<>>, notes |-> <<>>, err |-> Err("invalid_type", <<>>),
      call |-> NoCall ]

\* The scalar notification `name` as the proxy answers it.
visit_scalar(name, v) ==
    IF name \in ForwardedVisitOps THEN forward_visit(name, v)
    ELSE provided_visit(name, v)

visit_unit == forward_visit("visit_unit", <<>>)

visit_none == forward_visit("visit_none", <<>>)

\* The wrapped decoder calling the wrapped callback with no proxy between.
Direct(name, v) == forward_visit(name, v)

----------------------------------------------------------------------------
(* Handing nested decoders, accessors and seeds on                         *)

Frame(kind, proxied, pos, ident, depth) ==
    [ kind |-> kind, proxied |-> proxied, pos |-> pos, ident |-> ident,
      depth |-> depth ]

\* Deserializer::new
new == Frame("de", TRUE, "value", FALSE, 1)

\* forward_deserialize!: Visitor { visitor, listener } handed to self.de.$name
forward_deserialize(self, name) ==
    Frame("visitor", TRUE, self.pos, name = "deserialize_identifier",
          self.depth)

\* visit_some, were the inner decoder handed on as it came.
visit_some_bare(self) == Frame("de", FALSE, "value", FALSE, self.depth + 1)

visit_some(self) == Frame("de", TRUE, "value", FALSE, self.depth + 1)

visit_newtype_struct(self) == Frame("de", TRUE, "value", FALSE, self.depth + 1)

visit_seq(self) == Frame("seq", TRUE, "value", FALSE, self.depth)

visit_map(self) == Frame("map_key", TRUE, "value", FALSE, self.depth)

visit_enum(self) == Frame("enum", TRUE, "value", FALSE, self.depth)

\* next_element_seed, were the seed handed on as it came.
next_element_seed_bare(self) ==
    Frame("seed", FALSE, "value", FALSE, self.depth + 1)

next_element_seed(self) == Frame("seed", TRUE, "value", FALSE, self.depth + 1)

\* next_key_seed, were the seed handed on as it came.
next_key_seed_bare(self) == Frame("seed", FALSE, "key", FALSE, self.depth + 1)

next_key_seed(self) == Frame("seed", TRUE, "key", FALSE, self.depth + 1)

next_value_seed(self) == Frame("seed", TRUE, "value", FALSE, self.depth + 1)

\* The seed handed to the wrapped EnumAccess, and the Variant returned.
variant_seed(self) ==
    [ seed |-> Frame("seed", TRUE, "variant", FALSE, self.depth + 1),
      variant |-> Frame("variant", TRUE, "value", FALSE, self.depth) ]

newtype_variant_seed(self) ==
    Frame("seed", TRUE, "value", FALSE, self.depth + 1)

tuple_variant(self) == Frame("visitor", TRUE, "value", FALSE, self.depth)

struct_variant(self) == Frame("visitor", TRUE, "value", FALSE, self.depth)

\* DeserializeSeed::deserialize
deserialize(self) == Frame("de", TRUE, self.pos, FALSE, self.depth)

\* What `self` hands on: the proxy's wrapping when self is a proxy; a handle
\* that is no proxy hands on the wrapped decoder's own objects.
Handoff(self, wrapped) ==
    IF self.proxied THEN wrapped ELSE [wrapped EXCEPT !.proxied = FALSE]

----------------------------------------------------------------------------
(* State                                                                   *)

VARIABLES
    stack,    \* the open handles, innermost last: what is called next
    nodes,    \* values of the document begun so far
    files,    \* the listener's record: one entry per call, in call order
    reads,    \* the paths handed to fs::read, in call order
    seen,     \* the strings the wrapped decoder delivered, in delivery order
    lastIn,   \* the latest notification the wrapped decoder made
    lastOut,  \* what that notification made the wrapped callback receive
    result,   \* "running", or how the decode ended: "ok" / "err"
    error     \* the error a failed decode returns

vars == <<stack, nodes, files, reads, seen, lastIn, lastOut, result, error>>

\* The strings a document may hold.
RefA == FilePrefix \o PathA \o <<CloseBrace>>
RefB == FilePrefix \o PathB \o <<CloseBrace>>
RefC == FilePrefix \o PathC \o <<CloseBrace>>
RefM == FilePrefix \o PathM \o <<CloseBrace>>
\* "${file:}"
RefEmpty == FilePrefix \o <<CloseBrace>>
\* "${foobar}"
Foobar == <<36, 123, 102, 111, 111, 98, 97, 114, 125>>
\* "p ${file:/a} s"
Embedded == <<112, 32>> \o RefA \o <<32, 115>>
\* "${file:/a"
Unterminated == FilePrefix \o PathA
\* "x${file:/a}"
SuffixOnly == <<120>> \o RefA

Strings ==
    { RefA, RefB, RefC, RefM, RefEmpty, Foobar, Embedded, Unterminated,
      SuffixOnly }

NoIn ==
    [ op |-> "-", val |-> <<>>, str |-> FALSE, proxied |-> TRUE,
      pos |-> "-", ident |-> FALSE, depth |-> 0, nfiles |-> 0, nreads |-> 0 ]

NoOut == [ called |-> FALSE, op |-> "-", val |-> <<>>, cb |-> "-", ret |-> "-" ]

Init ==
    /\ stack = <<new>>
    /\ nodes = 1
    /\ files = <<>>
    /\ reads = <<>>
    /\ seen = <<>>
    /\ lastIn = NoIn
    /\ lastOut = NoOut
    /\ result = "running"
    /\ error = NoErr

Top == stack[Len(stack)]

Running(kind) ==
    /\ result = "running"
    /\ stack # <<>>
    /\ Top.kind = kind

\* The handle on top is replaced by f.
Replace(f) == stack' = [stack EXCEPT ![Len(stack)] = f]

\* A decode error: the proxies return it to their callers unchanged.
Fail(e) ==
    /\ result' = "err"
    /\ error' = e
    /\ UNCHANGED stack

\* The value on top is complete; the decode is when it was the outermost one.
Complete ==
    /\ stack' = SubSeq(stack, 1, Len(stack) - 1)
    /\ result' = IF Len(stack) = 1 THEN "ok" ELSE "running"
    /\ UNCHANGED error

\* A step that makes no notification.
Quiet == UNCHANGED <<files, reads, seen, lastIn, lastOut>>

\* The wrapped decoder makes the notification `name`(v) on the visitor on
\* top; eff is what the visitor does with it and accept whether the wrapped
\* callback, when called, answers Ok.
Notify(name, v, isStr, eff, accept) ==
    /\ eff.err.is => accept
    /\ files' = files \o eff.notes
    /\ reads' = reads \o eff.reads
    /\ seen' = IF isStr THEN Append(seen, v) ELSE seen
    /\ lastIn' = [ op |-> name, val |-> v, str |-> isStr,
                   proxied |-> Top.proxied, pos |-> Top.pos,
                   ident |-> Top.ident, depth |-> Top.depth,
                   nfiles |-> Len(files), nreads |-> Len(reads) ]
    /\ lastOut' = [ called |-> eff.call.called, op |-> eff.call.op,
                    val |-> eff.call.val,
                    cb |-> IF ~eff.call.called THEN "-"
                           ELSE IF accept THEN "Ok" ELSE "Err",
                    ret |-> IF eff.err.is \/ ~accept THEN "Err" ELSE "Ok" ]
    /\ nodes' = nodes
    /\ IF eff.err.is THEN Fail(eff.err)
       ELSE IF ~accept THEN Fail(Err("callback", <<>>))
       ELSE Complete

----------------------------------------------------------------------------
(* Deserializer                                                            *)

\* The caller invokes deserialize_* on the decoder it was handed.  An
\* operation the proxy does not define is serde's provided method, which
\* answers Err("... is not supported") without calling the wrapped decoder.
Deserialize ==
    /\ Running("de")
    /\ \E name \in DeserializeOps :
         IF Top.proxied /\ name \notin ForwardedDeserializeOps
         THEN /\ Fail(Err("unsupported", <<>>))
              /\ lastIn' = [NoIn EXCEPT !.op = name, !.depth = Top.depth]
              /\ lastOut' = [NoOut EXCEPT !.ret = "Err"]
              /\ UNCHANGED <<nodes, files, reads, seen>>
         ELSE /\ Replace(Handoff(Top, forward_deserialize(Top, name)))
              /\ Quiet
              /\ UNCHANGED <<nodes, result, error>>

----------------------------------------------------------------------------
(* Visitor                                                                 *)

ForwardVisit ==
    /\ Running("visitor")
    /\ \E name \in ScalarVisitOps, v \in ScalarVals, accept \in BOOLEAN :
         Notify(name, v, FALSE,
                IF Top.proxied THEN visit_scalar(name, v) ELSE Direct(name, v),
                accept)

VisitStr ==
    /\ Running("visitor")
    /\ \E v \in Strings, accept \in BOOLEAN :
         Notify("visit_str", v, TRUE,
                IF Top.proxied THEN visit_str(v) ELSE Direct("visit_str", v),
                accept)

VisitString ==
    /\ Running("visitor")
    /\ \E v \in Strings, accept \in BOOLEAN :
         Notify("visit_string", v, TRUE,
                IF Top.proxied THEN visit_string(v)
                ELSE Direct("visit_string", v),
                accept)

VisitBorrowedStr ==
    /\ Running("visitor")
    /\ \E v \in Strings, accept \in BOOLEAN :
         Notify("visit_borrowed_str", v, TRUE,
                IF Top.proxied THEN visit_borrowed_str(v)
                ELSE Direct("visit_borrowed_str", v),
                accept)

VisitUnit ==
    /\ Running("visitor")
    /\ \E accept \in BOOLEAN :
         Notify("visit_unit", <<>>, FALSE,
                IF Top.proxied THEN visit_unit ELSE Direct("visit_unit", <<>>),
                accept)

VisitNone ==
    /\ Running("visitor")
    /\ \E accept \in BOOLEAN :
         Notify("visit_none", <<>>, FALSE,
                IF Top.proxied THEN visit_none ELSE Direct("visit_none", <<>>),
                accept)

\* A nested value begins: it is one more value of the document.
Nested(f) ==
    /\ nodes < MaxNodes
    /\ nodes' = nodes + 1
    /\ Replace(f)
    /\ Quiet
    /\ UNCHANGED <<result, error>>

\* An accessor or a handle of the same value takes the place of the top.
Becomes(f) ==
    /\ Replace(f)
    /\ Quiet
    /\ UNCHANGED <<nodes, result, error>>

VisitSome == Running("visitor") /\ Nested(Handoff(Top, visit_some(Top)))

VisitNewtypeStruct ==
    Running("visitor") /\ Nested(Handoff(Top, visit_newtype_struct(Top)))

VisitSeq == Running("visitor") /\ Becomes(Handoff(Top, visit_seq(Top)))

VisitMap == Running("visitor") /\ Becomes(Handoff(Top, visit_map(Top)))

VisitEnum == Running("visitor") /\ Becomes(Handoff(Top, visit_enum(Top)))

----------------------------------------------------------------------------
(* SeqAccess, MapAccess, EnumAccess, VariantAccess, DeserializeSeed        *)

\* The wrapped accessor has a next item and runs the seed it was handed.
Push(f) ==
    /\ stack' = Append(stack, f)
    /\ Quiet
    /\ UNCHANGED <<result, error>>

\* The wrapped accessor is exhausted: Ok(None), and the container is done.
Exhausted ==
    /\ Complete
    /\ Quiet
    /\ UNCHANGED nodes

NextElementSeed ==
    /\ Running("seq")
    /\ \E more \in BOOLEAN :
         IF more
         THEN /\ nodes < MaxNodes
              /\ nodes' = nodes + 1
              /\ Push(Handoff(Top, next_element_seed(Top)))
         ELSE Exhausted

\* A key is followed by its value: both are values of the document.
NextKeySeed ==
    /\ Running("map_key")
    /\ \E more \in BOOLEAN :
         IF more
         THEN /\ nodes + 2 <= MaxNodes
              /\ nodes' = nodes + 1
              /\ stack' = Append([stack EXCEPT ![Len(stack)].kind = "map_value"],
                                 Handoff(Top, next_key_seed(Top)))
              /\ Quiet
              /\ UNCHANGED <<result, error>>
         ELSE Exhausted

NextValueSeed ==
    /\ Running("map_value")
    /\ nodes < MaxNodes
    /\ nodes' = nodes + 1
    /\ stack' = Append([stack EXCEPT ![Len(stack)].kind = "map_key"],
                       Handoff(Top, next_value_seed(Top)))
    /\ Quiet
    /\ UNCHANGED <<result, error>>

\* The variant's name is decoded by the seed; the Variant is what is left.
VariantSeed ==
    /\ Running("enum")
    /\ nodes < MaxNodes
    /\ nodes' = nodes + 1
    /\ stack' = Append([stack EXCEPT ![Len(stack)] =
                            Handoff(Top, variant_seed(Top).variant)],
                       Handoff(Top, variant_seed(Top).seed))
    /\ Quiet
    /\ UNCHANGED <<result, error>>

UnitVariant ==
    /\ Running("variant")
    /\ Exhausted

NewtypeVariantSeed ==
    Running("variant") /\ Nested(Handoff(Top, newtype_variant_seed(Top)))

TupleVariant == Running("variant") /\ Becomes(Handoff(Top, tuple_variant(Top)))

StructVariant ==
    Running("variant") /\ Becomes(Handoff(Top, struct_variant(Top)))

\* The wrapped accessor hands the item's decoder to the seed.
SeedDeserialize == Running("seed") /\ Becomes(Handoff(Top, deserialize(Top)))

----------------------------------------------------------------------------

Next ==
    \/ Deserialize
    \/ ForwardVisit
    \/ VisitStr
    \/ VisitString
    \/ VisitBorrowedStr
    \/ VisitUnit
    \/ VisitNone
    \/ VisitSome
    \/ VisitNewtypeStruct
    \/ VisitSeq
    \/ VisitMap
    \/ VisitEnum
    \/ NextElementSeed
    \/ NextKeySeed
    \/ NextValueSeed
    \/ VariantSeed
    \/ UnitVariant
    \/ NewtypeVariantSeed
    \/ TupleVariant
    \/ StructVariant
    \/ SeedDeserialize

Spec == Init /\ [][Next]_vars

----------------------------------------------------------------------------
(* Properties                                                              *)

\* The string starts with the literal "${file:".
StartsWithPrefix(s) ==
    /\ Len(s) >= Len(FilePrefix)
    /\ \A i \in 1..Len(FilePrefix) : s[i] = FilePrefix[i]

\* The string ends with '}'.
EndsWithBrace(s) == Len(s) >= 1 /\ s[Len(s)] = CloseBrace

\* The string is "${file:P}" for some P, the empty P included.
IsReference(s) == StartsWithPrefix(s) /\ EndsWithBrace(s)

\* The P of "${file:P}".
RefPath(s) ==
    [i \in 1..(Len(s) - Len(FilePrefix) - 1) |-> s[i + Len(FilePrefix)]]

RefTo(path) == FilePrefix \o path \o <<CloseBrace>>

\* The files that hold well-formed text: path, bytes, text.
GoodFiles ==
    { [path |-> PathA, bytes |-> BytesA, text |-> TextA],
      [path |-> PathC, bytes |-> BytesC, text |-> RefA] }

\* The files that can be read and hold no well-formed text.
BadFiles == { [path |-> PathB, bytes |-> BytesB] }

\* The latest notification was a string, delivered by the wrapped decoder.
StringIn == lastIn.str

\* Listener calls and file reads the latest notification caused.
NotesOfLast == Len(files) - lastIn.nfiles
ReadsOfLast == Len(reads) - lastIn.nreads

LastNote == files[Len(files)]

\* The wrapped callback received exactly the call op(v).
Received(op, v) == lastOut.called /\ lastOut.op = op /\ lastOut.val = v

\* The references among the delivered strings, in delivery order, and the
\* listener record and the reads they call for.
RefsSeen == SelectSeq(seen, IsReference)
NotesFor(rs) ==
    [i \in 1..Len(rs) |->
        [path |-> RefPath(rs[i]), result |-> fs_read(RefPath(rs[i]))]]
PathsFor(rs) == [i \in 1..Len(rs) |-> RefPath(rs[i])]

\* C1: a string "${file:P}", P holding bytes b that are the UTF-8 of text s, is
\* delivered to the wrapped callback as the owned string s (visit_string),
\* and the listener is called exactly once for it, with P and Ok(b); this
\* at every position and every nesting depth.
C1_Expansion ==
    \A g \in GoodFiles :
        (StringIn /\ lastIn.val = RefTo(g.path)) =>
            /\ Received("visit_string", g.text)
            /\ NotesOfLast = 1
            /\ LastNote = [path |-> g.path, result |-> IoOk(g.bytes)]

\* A reference two levels below the top of the document was expanded.
C1_Witness ==
    /\ StringIn
    /\ lastIn.val = RefA
    /\ lastIn.depth >= 3
    /\ Received("visit_string", TextA)
    /\ NotesOfLast = 1

\* C2: when reading P of "${file:P}" fails, the decode returns an error that
\* names P, the listener is called exactly once with P and the Err, and the
\* wrapped callback receives no string.
C2_ReadFailure ==
    (StringIn /\ IsReference(lastIn.val) /\ ~fs_read(RefPath(lastIn.val)).ok) =>
        /\ result = "err"
        /\ error = Err("reading", RefPath(lastIn.val))
        /\ NotesOfLast = 1
        /\ LastNote = [path |-> RefPath(lastIn.val), result |-> IoErr("NotFound")]
        /\ ~lastOut.called

C2_Witness ==
    /\ StringIn
    /\ lastIn.val = RefM
    /\ result = "err"
    /\ error.path = PathM
    /\ NotesOfLast = 1

\* C3: a string that does not both start with "${file:" and end with "}" is
\* forwarded unchanged through the operation it arrived on, with no file
\* read and no listener call.
C3_PassThrough ==
    (StringIn /\ ~(StartsWithPrefix(lastIn.val) /\ EndsWithBrace(lastIn.val))) =>
        /\ Received(lastIn.op, lastIn.val)
        /\ NotesOfLast = 0
        /\ ReadsOfLast = 0

C3_Witness ==
    /\ StringIn
    /\ lastIn.val = Embedded
    /\ lastIn.op = "visit_borrowed_str"
    /\ Received("visit_borrowed_str", Embedded)

\* C4: when P of "${file:P}" is read and its bytes are no UTF-8, the listener
\* has been called exactly once with P and Ok(bytes) when the decode fails
\* with an error naming P; the wrapped callback receives no string.
C4_InvalidText ==
    \A g \in BadFiles :
        (StringIn /\ lastIn.val = RefTo(g.path)) =>
            /\ NotesOfLast = 1
            /\ LastNote = [path |-> g.path, result |-> IoOk(g.bytes)]
            /\ result = "err"
            /\ error = Err("parsing", g.path)
            /\ ~lastOut.called

C4_Witness ==
    /\ StringIn
    /\ lastIn.val = RefB
    /\ result = "err"
    /\ error.kind = "parsing"
    /\ LastNote.result.ok

\* C5: in a decode that succeeds, the listener's record has exactly one entry
\* per delivered reference, in delivery order, and every occurrence is read
\* anew: k occurrences of P are k reads of P and k entries for P.
C5_OnePerOccurrence ==
    result = "ok" =>
        /\ files = NotesFor(RefsSeen)
        /\ reads = PathsFor(RefsSeen)

\* The same file referenced twice in a decode that succeeded.
C5_Witness ==
    /\ result = "ok"
    /\ Len(files) = 2
    /\ files[1].path = PathA
    /\ files[2].path = PathA
    /\ reads = <<PathA, PathA>>

\* C6: once the expansion of a reference fails, the decode has ended in an
\* error and the listener's record is the entries of the references before
\* it followed by the one entry of the failing reference, which was the
\* last string processed and was read once.
C6_FailStops ==
    (result = "err" /\ error.kind \in {"reading", "parsing"}) =>
        /\ seen # <<>>
        /\ IsReference(seen[Len(seen)])
        /\ RefPath(seen[Len(seen)]) = error.path
        /\ lastIn.val = seen[Len(seen)]
        /\ files = NotesFor(RefsSeen)
        /\ reads = PathsFor(RefsSeen)

\* A reference expanded, then one whose read failed.
C6_Witness ==
    /\ result = "err"
    /\ error = Err("reading", PathM)
    /\ Len(files) = 2
    /\ files[1].result.ok
    /\ ~files[2].result.ok

\* C7 as stated: "${file:}" is no reference; it is forwarded unchanged, no
\* read is attempted and the listener is not called.
C7_EmptyNotReference ==
    (StringIn /\ lastIn.val = RefEmpty) =>
        /\ Received(lastIn.op, RefEmpty)
        /\ NotesOfLast = 0
        /\ ReadsOfLast = 0

\* C7 amended: a string is treated as a reference exactly when it is
\* "${file:P}" for some P, the empty P included; "${file:}" makes the empty
\* path be read, the listener be called once with the empty path and the
\* read's result, and, the read failing, the decode fail without a call on
\* the wrapped callback.
C7_EmptyIsReference ==
    /\ StringIn => (ReadsOfLast = 1 <=> IsReference(lastIn.val))
    /\ (StringIn /\ lastIn.val = RefEmpty) =>
          /\ ReadsOfLast = 1
          /\ reads[Len(reads)] = <<>>
          /\ NotesOfLast = 1
          /\ LastNote = [path |-> <<>>, result |-> fs_read(<<>>)]
          /\ ~lastOut.called
          /\ result = "err"
          /\ error = Err("reading", <<>>)

C7_Witness ==
    /\ StringIn
    /\ lastIn.val = RefEmpty
    /\ NotesOfLast = 1
    /\ LastNote.path = <<>>
    /\ result = "err"

\* C8: every non-string scalar notification, the 128-bit integers included,
\* reaches the same-named operation of the wrapped callback with the value
\* unchanged, whose result is returned verbatim, with no read and no
\* listener call.
C8_ScalarsForwarded ==
    (lastIn.op \in ScalarVisitOps \cup {"visit_unit", "visit_none"}) =>
        /\ Received(lastIn.op, lastIn.val)
        /\ lastOut.ret = lastOut.cb
        /\ NotesOfLast = 0
        /\ ReadsOfLast = 0

\* C9: when the text of P is itself "${file:Q}", the wrapped callback receives
\* that text through visit_string, Q is not read and the listener is called
\* once, for P; no string causes more than one read.
C9_SinglePass ==
    /\ StringIn => ReadsOfLast <= 1
    /\ (StringIn /\ lastIn.val = RefC) =>
          /\ Received("visit_string", RefA)
          /\ ReadsOfLast = 1
          /\ reads[Len(reads)] = PathC
          /\ NotesOfLast = 1
          /\ LastNote.path = PathC

C9_Witness ==
    /\ StringIn
    /\ lastIn.val = RefC
    /\ Received("visit_string", RefA)
    /\ IsReference(lastOut.val)

\* The notification came for a map key, an enum variant's name or a value
\* asked for through deserialize_identifier.
NamePosition == lastIn.pos \in {"key", "variant"} \/ lastIn.ident

\* C10: a map key, a field identifier or a variant name delivered as a string
\* "${file:P}" is expanded like a value: P is read, the listener is called
\* once, and the callback receives the file's text or the decode fails.
C10_NamesExpanded ==
    (StringIn /\ NamePosition /\ IsReference(lastIn.val)) =>
        /\ ReadsOfLast = 1
        /\ NotesOfLast = 1
        /\ LastNote = [ path |-> RefPath(lastIn.val),
                        result |-> fs_read(RefPath(lastIn.val)) ]
        /\ \A g \in GoodFiles :
              RefPath(lastIn.val) = g.path => Received("visit_string", g.text)
        /\ (\A g \in GoodFiles : RefPath(lastIn.val) # g.path) =>
              (~lastOut.called /\ result = "err")

\* A map key asked for through deserialize_identifier was expanded.
C10_Witness ==
    /\ StringIn
    /\ lastIn.pos = "key"
    /\ lastIn.ident
    /\ lastIn.val = RefA
    /\ Received("visit_string", TextA)

====
